---- MODULE Spec2Model ----
(***************************************************************************)
(* A model of the Concierge Services billing-attribute extractor           *)
(* (attribute_extractor.py) and of the IMAP connectivity coordinator       *)
(* (sensor.py).                                                            *)
(*                                                                         *)
(* Text is a sequence of one-character strings.  Positions are 1-based;    *)
(* a match is the record [s, e, gs, ge]: it covers t[s] .. t[e-1] and its  *)
(* capture group covers t[gs] .. t[ge-1] (Python's 0-based, end-exclusive  *)
(* span (s-1, e-1)).                                                       *)
(***************************************************************************)
EXTENDS Integers, Sequences, FiniteSets, TLC

(***************************************************************************)
(* Characters and character classes of Python's re module.                 *)
(***************************************************************************)
Digit == {"0", "1", "2", "3", "4", "5", "6", "7", "8", "9"}

LowerLetter ==
    {"a", "b", "c", "d", "e", "f", "g", "h", "i", "j", "k", "l", "m",
     "n", "o", "p", "q", "r", "s", "t", "u", "v", "w", "x", "y", "z"}

UpperSeq ==
    <<"A", "B", "C", "D", "E", "F", "G", "H", "I", "J", "K", "L", "M",
      "N", "O", "P", "Q", "R", "S", "T", "U", "V", "W", "X", "Y", "Z">>

LowerSeq ==
    <<"a", "b", "c", "d", "e", "f", "g", "h", "i", "j", "k", "l", "m",
      "n", "o", "p", "q", "r", "s", "t", "u", "v", "w", "x", "y", "z">>

UpperLetter == {UpperSeq[k] : k \in DOMAIN UpperSeq}

\* re.IGNORECASE folds the subject text; patterns below are written folded.
LowerMap ==
    [c \in UpperLetter |-> LowerSeq[CHOOSE k \in DOMAIN UpperSeq : UpperSeq[k] = c]]

Lower(c) == IF c \in UpperLetter THEN LowerMap[c] ELSE c

LowerText(t) == [i \in 1..Len(t) |-> Lower(t[i])]

\* \s
Space == {" ", "\t", "\n", "\r", "\f"}

\* the characters [^\n\r] excludes
LineBreak == {"\n", "\r"}

(***************************************************************************)
(* Regular expressions as data.  Kinds: "c" one character of a set, "n"    *)
(* one character outside a set, "cat" concatenation, "alt" ordered         *)
(* alternation, "rep" greedy {lo,hi}, "star" greedy {lo,}.                 *)
(***************************************************************************)
C(set) == [k |-> "c", s |-> set]

NC(set) == [k |-> "n", s |-> set]

Cat(rs) == [k |-> "cat", r |-> rs]

Alt(rs) == [k |-> "alt", r |-> rs]

Rep(r, lo, hi) == [k |-> "rep", r |-> r, lo |-> lo, hi |-> hi]

Star(r, lo) == [k |-> "star", r |-> r, lo |-> lo]

\* a literal word
Lit(w) == Cat([i \in 1..Len(w) |-> C({w[i]})])

D == C(Digit)

S == C(Space)

L == C(LowerLetter)

\* a capture group around r
G(r) == Cat(<<[k |-> "gs"], r, [k |-> "ge"]>>)

(***************************************************************************)
(* The backtracking matcher.  A frame records where the match started (s), *)
(* the position reached (i) and the capture group's span so far (gs, ge).  *)
(* Try(rs, f, t) matches the patterns rs one after the other from frame f  *)
(* and yields the first match in the order Python's engine tries the       *)
(* choices: greedy repetition longest first, alternation left to right.    *)
(***************************************************************************)
NoMatch == [s |-> 0, e |-> 0, gs |-> 0, ge |-> 0]

\* whether the one-character pattern r ("c" or "n") accepts t[j]
Accepts(r, t, j) ==
    j <= Len(t) /\ (IF r.k = "c" THEN t[j] \in r.s ELSE t[j] \notin r.s)

\* the first position from i on that r does not accept, or last if none before
RunStop(r, t, i, last) ==
    CHOOSE j \in i..last :
        /\ (j = last \/ ~Accepts(r, t, j))
        /\ \A k \in i..(j - 1) : Accepts(r, t, k)

\* a greedy repetition of a one-character pattern: the positions after every
\* length from the longest run (at most hi characters when bounded) down to lo
RunEnds(r, lo, hi, bounded, t, i) ==
    LET last == IF bounded /\ i + hi <= Len(t) THEN i + hi ELSE Len(t) + 1
        stop == IF i > Len(t) THEN i ELSE RunStop(r, t, i, last)
        count == IF stop >= i + lo THEN stop - (i + lo) + 1 ELSE 0
    IN [n \in 1..count |-> stop - n + 1]

Less1(n) == IF n > 0 THEN n - 1 ELSE 0

\* the first match of the attempts ms, made in order
FirstOk(ms) ==
    IF \A k \in 1..Len(ms) : ms[k] = NoMatch THEN NoMatch
    ELSE ms[CHOOSE k \in 1..Len(ms) :
                ms[k] # NoMatch /\ \A j \in 1..(k - 1) : ms[j] = NoMatch]

RECURSIVE Try(_, _, _)

Try(rs, f, t) ==
    IF rs = <<>> THEN [s |-> f.s, e |-> f.i, gs |-> f.gs, ge |-> f.ge]
    ELSE LET h == Head(rs)
             rest == Tail(rs)
         IN CASE h.k \in {"c", "n"} ->
                    IF Accepts(h, t, f.i) THEN Try(rest, [f EXCEPT !.i = f.i + 1], t)
                    ELSE NoMatch
              [] h.k = "cat" -> Try(h.r \o rest, f, t)
              [] h.k = "alt" ->
                    FirstOk(<<>> \o [k \in 1..Len(h.r) |-> Try(<<h.r[k]>> \o rest, f, t)])
              [] h.k = "gs" -> Try(rest, [f EXCEPT !.gs = f.i], t)
              [] h.k = "ge" -> Try(rest, [f EXCEPT !.ge = f.i], t)
              [] h.k \in {"rep", "star"} /\ h.r.k \in {"c", "n"} ->
                    FirstOk(<<>> \o
                        [e \in DOMAIN RunEnds(h.r, h.lo, IF h.k = "rep" THEN h.hi ELSE 0,
                                              h.k = "rep", t, f.i) |->
                            Try(rest,
                                [f EXCEPT !.i = RunEnds(h.r, h.lo,
                                                        IF h.k = "rep" THEN h.hi ELSE 0,
                                                        h.k = "rep", t, f.i)[e]],
                                t)])
              [] h.k = "rep" /\ h.r.k \notin {"c", "n"} ->
                    FirstOk(<<IF h.hi > 0
                              THEN Try(<<h.r, Rep(h.r, Less1(h.lo), h.hi - 1)>> \o rest, f, t)
                              ELSE NoMatch,
                              IF h.lo = 0 THEN Try(rest, f, t) ELSE NoMatch>>)
              [] h.k = "star" /\ h.r.k \notin {"c", "n"} ->
                    FirstOk(<<Try(<<h.r, Star(h.r, Less1(h.lo))>> \o rest, f, t),
                              IF h.lo = 0 THEN Try(rest, f, t) ELSE NoMatch>>)

\* pattern.match(t, pos = s)
MatchAt(p, t, s) == Try(<<p>>, [i |-> s, s |-> s, gs |-> s, ge |-> s], t)

(***************************************************************************)
(* The characters a match can begin with, used to skip positions at which  *)
(* no match can start: [neg |-> FALSE, s |-> set] is the characters of     *)
(* set, [neg |-> TRUE, s |-> set] every character outside set.             *)
(***************************************************************************)
NoChars == [neg |-> FALSE, s |-> {}]

AnyChar == [neg |-> TRUE, s |-> {}]

Either(f, g) ==
    CASE ~f.neg /\ ~g.neg -> [neg |-> FALSE, s |-> f.s \cup g.s]
      [] f.neg /\ g.neg -> [neg |-> TRUE, s |-> f.s \cap g.s]
      [] f.neg /\ ~g.neg -> [neg |-> TRUE, s |-> f.s \ g.s]
      [] ~f.neg /\ g.neg -> [neg |-> TRUE, s |-> g.s \ f.s]

RECURSIVE FirstOf(_, _)

\* the first characters of the pattern sequences in work, added to acc
FirstOf(work, acc) ==
    IF work = <<>> THEN acc
    ELSE LET rs == Head(work)
             more == Tail(work)
         IN IF rs = <<>> THEN AnyChar
            ELSE LET h == Head(rs)
                     rest == Tail(rs)
                 IN CASE h.k = "c" -> FirstOf(more, Either(acc, [neg |-> FALSE, s |-> h.s]))
                      [] h.k = "n" -> FirstOf(more, Either(acc, [neg |-> TRUE, s |-> h.s]))
                      [] h.k = "cat" -> FirstOf(<<h.r \o rest>> \o more, acc)
                      [] h.k = "alt" ->
                            FirstOf([k \in 1..Len(h.r) |-> <<h.r[k]>> \o rest] \o more, acc)
                      [] h.k \in {"gs", "ge"} -> FirstOf(<<rest>> \o more, acc)
                      [] h.k \in {"rep", "star"} ->
                            FirstOf(<<(<<h.r>> \o rest)>>
                                    \o (IF h.lo = 0 THEN <<rest>> ELSE <<>>) \o more, acc)

PatternFirst(p) == FirstOf(<< <<p>> >>, NoChars)

CanStart(f, c) == IF f.neg THEN c \notin f.s ELSE c \in f.s

\* the leftmost position from from on at which a match starts; Len(t) + 1 if none
FirstStart(p, f, t, from) ==
    CHOOSE s \in from..(Len(t) + 1) :
        /\ (s = Len(t) + 1 \/ (CanStart(f, t[s]) /\ MatchAt(p, t, s) # NoMatch))
        /\ \A r \in from..(s - 1) : ~(CanStart(f, t[r]) /\ MatchAt(p, t, r) # NoMatch)

\* re.search: the match at the leftmost position that has one
Search(p, t) ==
    LET s == FirstStart(p, PatternFirst(p), t, 1)
    IN IF s > Len(t) THEN NoMatch ELSE MatchAt(p, t, s)

RECURSIVE IterFrom(_, _, _, _)

\* the non-overlapping matches at or after position from, left to right
IterFrom(p, f, t, from) ==
    IF from > Len(t) THEN <<>>
    ELSE LET s == FirstStart(p, f, t, from)
         IN IF s > Len(t) THEN <<>>
            ELSE LET m == MatchAt(p, t, s)
                 IN <<m>> \o IterFrom(p, f, t, m.e)

\* re.finditer
FindIter(p, t) == IterFrom(p, PatternFirst(p), t, 1)

\* the least element of a non-empty set of numbers
MinOf(set) == CHOOSE x \in set : \A y \in set : x <= y

\* match.group(1)
Group(t, m) == SubSeq(t, m.gs, m.ge - 1)

\* t[n:] for a 1-based position n of the next character
From(t, n) == SubSeq(t, n, Len(t))

\* t[:n]
Prefix(t, n) == SubSeq(t, 1, IF n < Len(t) THEN n ELSE Len(t))

\* str.strip()
RECURSIVE LStrip(_)
RECURSIVE RStrip(_)
LStrip(t) == IF t # <<>> /\ Head(t) \in Space THEN LStrip(Tail(t)) ELSE t

RStrip(t) ==
    IF t # <<>> /\ t[Len(t)] \in Space THEN RStrip(SubSeq(t, 1, Len(t) - 1)) ELSE t

Strip(t) == RStrip(LStrip(t))

(***************************************************************************)
(* Python values: None, and a dict as a function from keys to values.      *)
(***************************************************************************)
\* None: a value that is no text
None == <<"None">>

\* bool(v) for a str-or-None value
Truthy(v) == v # None /\ v # <<>>

EmptyMap == [x \in {} |-> <<>>]

\* d[k] = v
Put(d, k, v) == [x \in DOMAIN d \cup {k} |-> IF x = k THEN v ELSE d[x]]

\* d.update(other)
Update(d, other) ==
    [x \in DOMAIN d \cup DOMAIN other |-> IF x \in DOMAIN other THEN other[x] ELSE d[x]]

(***************************************************************************)
(* The pattern tables.                                                     *)
(***************************************************************************)
Sp1 == Star(S, 1)

Sp0 == Star(S, 0)

Opt(r) == Rep(r, 0, 1)

\* [:\s]+
LabelSep == Star(C({":"} \cup Space), 1)

DateSep == C({"/", "-"})

DATE_PATTERNS ==
    << G(Cat(<<Rep(D, 1, 2), DateSep, Rep(D, 1, 2), DateSep, Rep(D, 2, 4)>>)),
       G(Cat(<<Rep(D, 1, 2), Sp1, Lit(<<"d", "e">>), Sp1, Star(L, 1), Sp1,
                   Lit(<<"d", "e">>), Sp1, Rep(D, 4, 4)>>)),
       G(Cat(<<Star(L, 1), Sp1, Rep(D, 1, 2), Opt(C({","})), Sp1, Rep(D, 4, 4)>>)) >>

W_total == Lit(<<"t", "o", "t", "a", "l">>)

W_pagar == Lit(<<"p", "a", "g", "a", "r">>)

W_monto == Lit(<<"m", "o", "n", "t", "o">>)

W_factura == Lit(<<"f", "a", "c", "t", "u", "r", "a">>)

W_importe == Lit(<<"i", "m", "p", "o", "r", "t", "e">>)

W_cuenta == Lit(<<"c", "u", "e", "n", "t", "a">>)

W_valor == Lit(<<"v", "a", "l", "o", "r">>)

W_cliente == Lit(<<"c", "l", "i", "e", "n", "t", "e">>)

W_de == Lit(<<"d", "e">>)

W_a == Lit(<<"a">>)

\* n[úu]mero
W_numero == Cat(<<C({"n"}), C({"ú", "u"}), Lit(<<"m", "e", "r", "o">>)>>)

\* n[°º]
W_nro == Cat(<<C({"n"}), C({"°", "º"})>>)

\* n[°º]?
W_nroOpt == Cat(<<C({"n"}), Opt(C({"°", "º"}))>>)

\* (?:number|no\.?)
W_numberOrNo ==
    Alt(<<Lit(<<"n", "u", "m", "b", "e", "r">>), Cat(<<Lit(<<"n", "o">>), Opt(C({"."}))>>)>>)

W_cuentaOrCliente == Alt(<<W_cuenta, W_cliente>>)

_TOTAL_LABELS ==
    Cat(<<Alt(<<Cat(<<W_total, Sp1, W_a, Sp1, W_pagar>>),
                Cat(<<W_monto, Sp1, W_total>>),
                Cat(<<W_total, Sp1, W_factura>>),
                Cat(<<W_importe, Sp1, W_total>>),
                Cat(<<W_total, Sp1, W_cuenta>>),
                Cat(<<W_valor, Sp1, W_a, Sp1, W_pagar>>),
                W_total>>),
          LabelSep>>)

_CUSTOMER_LABELS ==
    Cat(<<Alt(<<Cat(<<W_numero, Sp1, W_de, Sp1, W_cuentaOrCliente>>),
                Cat(<<W_nro, Sp0, W_cuentaOrCliente>>),
                Cat(<<W_cuenta, Sp1, W_nroOpt>>),
                Cat(<<W_cliente, Sp1, W_nroOpt>>),
                Cat(<<Lit(<<"c", "u", "s", "t", "o", "m", "e", "r">>), Sp1, W_numberOrNo>>),
                Cat(<<Lit(<<"a", "c", "c", "o", "u", "n", "t">>), Sp1, W_numberOrNo>>)>>),
          LabelSep>>)

_ADDRESS_LABELS ==
    Cat(<<Alt(<<Cat(<<Lit(<<"d", "i", "r", "e", "c", "c", "i">>), C({"o", "ó"}), C({"n"}),
                      Opt(Cat(<<Sp1, W_de, Sp1,
                                Lit(<<"s", "u", "m", "i", "n", "i", "s", "t", "r", "o">>)>>))>>),
                Lit(<<"d", "o", "m", "i", "c", "i", "l", "i", "o">>),
                Lit(<<"a", "d", "d", "r", "e", "s", "s">>)>>),
          LabelSep>>)

\* [0-9]{1,3}(?:[.,][0-9]{3})*(?:[.,][0-9]{1,2})?
AmountNumber ==
    Cat(<<Rep(D, 1, 3),
          Star(Cat(<<C({".", ","}), Rep(D, 3, 3)>>), 0),
          Opt(Cat(<<C({".", ","}), Rep(D, 1, 2)>>))>>)

\* (?:CLP|USD|EUR|pesos?)
CurrencyMarker ==
    Alt(<<Lit(<<"c", "l", "p">>), Lit(<<"u", "s", "d">>), Lit(<<"e", "u", "r">>),
          Cat(<<Lit(<<"p", "e", "s", "o">>), Opt(C({"s"}))>>)>>)

\* group(1) of the first alternative, group(2) of the second: at most one is set,
\* and the code reads "group(1) or group(2)"
_AMOUNT_RE ==
    Alt(<<Cat(<<C({"$"}), Sp0, G(AmountNumber)>>),
          Cat(<<G(AmountNumber), Sp0, CurrencyMarker>>)>>)

TotalWindow == 60

CustomerWindow == 80

CustomerNumberTail == 19

AddressMin == 5

AddressMax == 120

FolioMinDigits == 6

MaxCombined == 15000

\* [0-9][0-9.\-]{0,19}
CustomerNumberRe ==
    G(Cat(<<D, Rep(C(Digit \cup {".", "-"}), 0, CustomerNumberTail)>>))

\* [^\n\r]{5,120}
AddressLineRe == G(Rep(NC(LineBreak), AddressMin, AddressMax))

\* <label>[:\s]*([0-9]{6,})
FolioPattern(label) ==
    Cat(<<label, Star(C({":"} \cup Space), 0), G(Star(D, FolioMinDigits))>>)

folio_patterns ==
    << FolioPattern(Lit(<<"f", "o", "l", "i", "o">>)),
       FolioPattern(W_numero),
       FolioPattern(Lit(<<"b", "o", "l", "e", "t", "a">>)),
       FolioPattern(W_factura) >>

\* [0-9]{1,2}\.[0-9]{3}\.[0-9]{3}-[0-9kK]   (matched without IGNORECASE)
rut_pattern ==
    G(Cat(<<Rep(D, 1, 2), C({"."}), Rep(D, 3, 3), C({"."}), Rep(D, 3, 3), C({"-"}),
                C(Digit \cup {"k", "K"})>>))

(***************************************************************************)
(* The field extractors.                                                   *)
(***************************************************************************)
RECURSIVE TotalFromLabels(_, _, _)

\* the loop over _TOTAL_LABELS.finditer(text), from the n-th label match
TotalFromLabels(text, labels, n) ==
    IF n > Len(labels) THEN None
    ELSE LET rest == From(text, labels[n].e)
             window == Prefix(rest, TotalWindow)
             amount_match == Search(_AMOUNT_RE, LowerText(window))
             raw == Strip(Group(window, amount_match))
         IN IF amount_match # NoMatch /\ raw # <<>> THEN raw
            ELSE TotalFromLabels(text, labels, n + 1)

\* a variant that takes the first amount of the whole text, labelled or not
TotalAnywhere(text) ==
    LET amount_match == Search(_AMOUNT_RE, LowerText(text))
        raw == Strip(Group(text, amount_match))
    IN IF amount_match # NoMatch /\ raw # <<>> THEN raw ELSE None

_extract_total_amount(text) ==
    LET labelled == TotalFromLabels(text, FindIter(_TOTAL_LABELS, LowerText(text)), 1)
    IN IF labelled # None THEN labelled
       ELSE LET amount_match == Search(_AMOUNT_RE, LowerText(text))
                raw == Strip(Group(text, amount_match))
            IN IF amount_match # NoMatch /\ raw # <<>> THEN raw ELSE None

RECURSIVE CustomerFromLabels(_, _, _)

CustomerFromLabels(text, labels, n) ==
    IF n > Len(labels) THEN None
    ELSE LET rest == From(text, labels[n].e)
             window == Prefix(rest, CustomerWindow)
             num_match == Search(CustomerNumberRe, window)
         IN IF num_match # NoMatch THEN Strip(Group(window, num_match))
            ELSE CustomerFromLabels(text, labels, n + 1)

_extract_customer_number(text) ==
    CustomerFromLabels(text, FindIter(_CUSTOMER_LABELS, LowerText(text)), 1)

RECURSIVE CollapseSpace(_)

\* re.sub(r"\s+", " ", t)
CollapseSpace(t) ==
    IF t = <<>> THEN <<>>
    ELSE IF Head(t) \in Space
         THEN <<" ">> \o CollapseSpace(LStrip(t))
         ELSE <<Head(t)>> \o CollapseSpace(Tail(t))

RECURSIVE AddressFromLabels(_, _, _)

AddressFromLabels(text, labels, n) ==
    IF n > Len(labels) THEN None
    ELSE LET rest == From(text, labels[n].e)
             line_match == Search(AddressLineRe, rest)
             value == Strip(CollapseSpace(Group(rest, line_match)))
         IN IF line_match # NoMatch /\ value # <<>> THEN value
            ELSE AddressFromLabels(text, labels, n + 1)

_extract_address(text) ==
    AddressFromLabels(text, FindIter(_ADDRESS_LABELS, LowerText(text)), 1)

_DATE_KEYS == <<"billing_period_start", "billing_period_end">>

\* a variant of the inner loop without the "if key not in dates" guard
DateMatchesOverwriting(dates, text, ms, i) ==
    LET d1 == IF Len(ms) >= 1
              THEN Put(dates, _DATE_KEYS[1], Strip(Group(text, ms[1])))
              ELSE dates
    IN IF Len(ms) >= 2
       THEN Put(d1, _DATE_KEYS[2], Strip(Group(text, ms[2])))
       ELSE d1

RECURSIVE DateMatches(_, _, _, _)

\* the inner loop: for i, match in enumerate(finditer), i counted from 1 here
DateMatches(dates, text, ms, i) ==
    IF i > Len(ms) \/ i > Len(_DATE_KEYS) THEN dates
    ELSE LET key == _DATE_KEYS[i]
         IN DateMatches(IF key \notin DOMAIN dates
                        THEN Put(dates, key, Strip(Group(text, ms[i])))
                        ELSE dates,
                        text, ms, i + 1)

RECURSIVE DatePatterns(_, _, _)

\* the outer loop: for pattern in DATE_PATTERNS, from the k-th pattern
DatePatterns(dates, text, k) ==
    IF k > Len(DATE_PATTERNS) THEN dates
    ELSE DatePatterns(DateMatches(dates, text, FindIter(DATE_PATTERNS[k], LowerText(text)), 1),
                      text, k + 1)

_extract_dates(text) == DatePatterns(EmptyMap, text, 1)

\* a variant that takes the leftmost match of any folio pattern
FolioLeftmost(subject, k) ==
    LET ms == [n \in 1..Len(folio_patterns) |->
                  Search(folio_patterns[n], LowerText(subject))]
        hit == {n \in 1..Len(folio_patterns) : ms[n] # NoMatch}
    IN IF hit = {} THEN NoMatch
       ELSE ms[CHOOSE n \in hit : \A o \in hit : ms[n].s <= ms[o].s]

RECURSIVE FolioFrom(_, _)

\* the loop over folio_patterns, from the k-th pattern; NoMatch if none matches
FolioFrom(subject, k) ==
    IF k > Len(folio_patterns) THEN NoMatch
    ELSE LET match == Search(folio_patterns[k], LowerText(subject))
         IN IF match # NoMatch THEN match ELSE FolioFrom(subject, k + 1)

_extract_from_subject(subject) ==
    LET folio == FolioFrom(subject, 1)
        attrs == IF folio # NoMatch THEN Put(EmptyMap, "folio", Group(subject, folio))
                 ELSE EmptyMap
        match == Search(rut_pattern, subject)
    IN IF match # NoMatch THEN Put(attrs, "rut_from_subject", Group(subject, match))
       ELSE attrs

(***************************************************************************)
(* extract_attributes_from_email_body, step by step.                       *)
(***************************************************************************)
VARIABLES
    pc,          \* the position of the running call
    text,        \* the argument of a field extractor called on its own
    result,      \* the value the finished call returned
    subject,     \* extract_attributes_from_email_body's arguments
    body,
    combined,    \* its local: subject + "\n\n" + body, capped
    attributes,  \* its local: the map built so far
    fault,       \* the sub-extractor call during which an exception is raised
    raised,      \* whether an exception reached the caller
    msg,         \* extract_attributes_from_email's argument
    cpc,         \* the position of the coordinator's refresh
    failing,     \* the step of the refresh in progress that fails
    calls,       \* the IMAP calls the refresh has made
    ret,         \* what _check_connection returned
    outcome,     \* how the last _async_update_data ended
    refreshes    \* the number of refreshes started

connVars == <<cpc, failing, calls, ret, outcome, refreshes>>

vars ==
    <<pc, text, result, subject, body, combined, attributes, fault, raised, msg, connVars>>

\* no refresh has been started
ConnIdle ==
    /\ cpc = "idle"
    /\ failing = "none"
    /\ calls = <<>>
    /\ ret = ""
    /\ outcome = "none"
    /\ refreshes = 0

Faults == {"none", "subject", "dates", "total", "customer", "address"}

\* a variant that stores the value whatever it is
SetAlways(attrs, key, v) == Put(attrs, key, v)

\* if v: attributes[key] = v
SetIfTruthy(attrs, key, v) == IF Truthy(v) THEN Put(attrs, key, v) ELSE attrs

\* f"{subject}\n\n{body}"
Concatenation(subj, bdy) == subj \o <<"\n", "\n">> \o bdy

\* combined = f"{subject}\n\n{body}"; if len(combined) > 15000: combined = combined[:15000]
Combine(subj, bdy) ==
    LET c == Concatenation(subj, bdy)
    IN IF Len(c) > MaxCombined THEN Prefix(c, MaxCombined) ELSE c

StepSubject ==
    /\ pc = "start"
    /\ IF fault = "subject"
       THEN pc' = "except" /\ UNCHANGED attributes
       ELSE /\ attributes' = Update(attributes, _extract_from_subject(subject))
            /\ pc' = "combine"
    /\ UNCHANGED <<text, result, subject, body, combined, fault, raised, msg, connVars>>

StepCombine ==
    /\ pc = "combine"
    /\ combined' = Combine(subject, body)
    /\ pc' = "dates"
    /\ UNCHANGED <<text, result, subject, body, attributes, fault, raised, msg, connVars>>

StepDates ==
    /\ pc = "dates"
    /\ IF fault = "dates"
       THEN pc' = "except" /\ UNCHANGED attributes
       ELSE /\ attributes' = Update(attributes, _extract_dates(combined))
            /\ pc' = "total"
    /\ UNCHANGED <<text, result, subject, body, combined, fault, raised, msg, connVars>>

StepTotal ==
    /\ pc = "total"
    /\ IF fault = "total"
       THEN pc' = "except" /\ UNCHANGED attributes
       ELSE /\ attributes' =
                 SetIfTruthy(attributes, "total_amount", _extract_total_amount(combined))
            /\ pc' = "customer"
    /\ UNCHANGED <<text, result, subject, body, combined, fault, raised, msg, connVars>>

StepCustomer ==
    /\ pc = "customer"
    /\ IF fault = "customer"
       THEN pc' = "except" /\ UNCHANGED attributes
       ELSE /\ attributes' =
                 SetIfTruthy(attributes, "customer_number", _extract_customer_number(combined))
            /\ pc' = "address"
    /\ UNCHANGED <<text, result, subject, body, combined, fault, raised, msg, connVars>>

StepAddress ==
    /\ pc = "address"
    /\ IF fault = "address"
       THEN pc' = "except" /\ UNCHANGED attributes
       ELSE /\ attributes' = SetIfTruthy(attributes, "address", _extract_address(combined))
            /\ pc' = "return"
    /\ UNCHANGED <<text, result, subject, body, combined, fault, raised, msg, connVars>>

\* a variant of the handler that lets the exception through
ExceptPropagates ==
    /\ pc = "except"
    /\ pc' = "done"
    /\ raised' = TRUE
    /\ UNCHANGED <<text, result, subject, body, combined, attributes, fault, msg, connVars>>

\* except Exception as err: _LOGGER.debug(...)
Except ==
    /\ pc = "except"
    /\ pc' = "return"
    /\ UNCHANGED <<text, result, subject, body, combined, attributes, fault, raised, msg, connVars>>

\* return attributes
Return ==
    /\ pc = "return"
    /\ result' = attributes
    /\ pc' = "done"
    /\ UNCHANGED <<text, subject, body, combined, attributes, fault, raised, msg, connVars>>

Pipeline ==
    \/ StepSubject
    \/ StepCombine
    \/ StepDates
    \/ StepTotal
    \/ StepCustomer
    \/ StepAddress
    \/ Except
    \/ Return

(***************************************************************************)
(* Input texts.                                                            *)
(***************************************************************************)
\* "Folio: 123456"
S_folio ==
    <<"F", "o", "l", "i", "o", ":", " ", "1", "2", "3", "4", "5", "6">>

\* "Boleta 7654321 "
S_boleta ==
    <<"B", "o", "l", "e", "t", "a", " ", "7", "6", "5", "4", "3", "2", "1", " ">>

\* "RUT 12.345.678-9 "
S_rut ==
    <<"R", "U", "T", " ", "1", "2", ".", "3", "4", "5", ".", "6", "7", "8", "-", "9",
      " ">>

\* "Factura 12345 "
S_factura_short ==
    <<"F", "a", "c", "t", "u", "r", "a", " ", "1", "2", "3", "4", "5", " ">>

\* "Numero:222333 "
S_numero ==
    <<"N", "u", "m", "e", "r", "o", ":", "2", "2", "2", "3", "3", "3", " ">>

\* "Total a pagar: $45.990\n"
B_total ==
    <<"T", "o", "t", "a", "l", " ", "a", " ", "p", "a", "g", "a", "r", ":", " ", "$",
      "4", "5", ".", "9", "9", "0", "\n">>

\* "01/03/2024 al 31/03/2024\n"
B_period ==
    <<"0", "1", "/", "0", "3", "/", "2", "0", "2", "4", " ", "a", "l", " ", "3", "1",
      "/", "0", "3", "/", "2", "0", "2", "4", "\n">>

\* "Direccion: Av. Siempre  Viva 742\n"
B_address ==
    <<"D", "i", "r", "e", "c", "c", "i", "o", "n", ":", " ", "A", "v", ".", " ", "S",
      "i", "e", "m", "p", "r", "e", " ", " ", "V", "i", "v", "a", " ", "7", "4", "2",
      "\n">>

\* "Numero de cuenta: 123-456789\n"
B_customer ==
    <<"N", "u", "m", "e", "r", "o", " ", "d", "e", " ", "c", "u", "e", "n", "t", "a",
      ":", " ", "1", "2", "3", "-", "4", "5", "6", "7", "8", "9", "\n">>

\* "Domicilio:    \n"
B_blank_address ==
    <<"D", "o", "m", "i", "c", "i", "l", "i", "o", ":", " ", " ", " ", " ", "\n">>

\* "Total: "
T_label ==
    <<"T", "o", "t", "a", "l", ":", " ">>

\* "Monto total:\n"
T_label_long ==
    <<"M", "o", "n", "t", "o", " ", "t", "o", "t", "a", "l", ":", "\n">>

\* "$45.990 "
T_dollar ==
    <<"$", "4", "5", ".", "9", "9", "0", " ">>

\* "12.500 CLP "
T_clp ==
    <<"1", "2", ".", "5", "0", "0", " ", "C", "L", "P", " ">>

\* "01/03/2024 "
D_numeric1 ==
    <<"0", "1", "/", "0", "3", "/", "2", "0", "2", "4", " ">>

\* "31-03-24 "
D_numeric2 ==
    <<"3", "1", "-", "0", "3", "-", "2", "4", " ">>

\* "5 de marzo de 2024 "
D_spanish1 ==
    <<"5", " ", "d", "e", " ", "m", "a", "r", "z", "o", " ", "d", "e", " ", "2", "0",
      "2", "4", " ">>

\* "4 de Abril de 2024 "
D_spanish2 ==
    <<"4", " ", "d", "e", " ", "A", "b", "r", "i", "l", " ", "d", "e", " ", "2", "0",
      "2", "4", " ">>

\* "March 5, 2024 "
D_english ==
    <<"M", "a", "r", "c", "h", " ", "5", ",", " ", "2", "0", "2", "4", " ">>

\* "al "
D_word ==
    <<"a", "l", " ">>

\* "Direccion: "
A_label ==
    <<"D", "i", "r", "e", "c", "c", "i", "o", "n", ":", " ">>

\* "Address:\n"
A_label2 ==
    <<"A", "d", "d", "r", "e", "s", "s", ":", "\n">>

\* "Av. Siempre  Viva 742"
A_value ==
    <<"A", "v", ".", " ", "S", "i", "e", "m", "p", "r", "e", " ", " ", "V", "i", "v",
      "a", " ", "7", "4", "2">>

\* "Av"
A_short ==
    <<"A", "v">>

\* "\n"
A_newline ==
    <<"\n">>

\* "Otro texto"
A_other ==
    <<"O", "t", "r", "o", " ", "t", "e", "x", "t", "o">>

\* "     "
A_spaces ==
    <<" ", " ", " ", " ", " ">>

RECURSIVE Texts(_, _)

\* every concatenation of at most n fragments of pool
Texts(pool, n) ==
    IF n = 0 THEN {<<>>}
    ELSE LET shorter == Texts(pool, n - 1)
         IN shorter \cup {t \o f : t \in shorter, f \in pool}

\* n characters that no pattern table mentions
Pad(n) == [i \in 1..n |-> "#"]

NoMsg == [subject |-> <<>>, multipart |-> FALSE, parts |-> <<>>]

MaxBodyParts == 2

Subjects == {<<>>, S_folio, S_boleta \o S_rut, S_factura_short \o S_numero}

BodyPool == {B_total, B_period, B_address, B_customer, B_blank_address}

Bodies == Texts(BodyPool, MaxBodyParts)

Init ==
    /\ pc = "start"
    /\ subject \in Subjects
    /\ body \in Bodies
    /\ fault \in Faults
    /\ combined = <<>>
    /\ attributes = EmptyMap
    /\ raised = FALSE
    /\ text = <<>>
    /\ result = EmptyMap
    /\ msg = NoMsg
    /\ ConnIdle

Next == Pipeline

Spec == Init /\ [][Next]_vars

(***************************************************************************)
(* The field extractors called on their own.                               *)
(***************************************************************************)
PipelineIdle ==
    /\ subject = <<>>
    /\ body = <<>>
    /\ combined = <<>>
    /\ attributes = EmptyMap
    /\ fault = "none"
    /\ raised = FALSE
    /\ msg = NoMsg
    /\ ConnIdle

pipelineVars == <<subject, body, combined, attributes, fault, raised, msg>>

CallSubject ==
    /\ pc = "call_subject"
    /\ result' = _extract_from_subject(text)
    /\ pc' = "done"
    /\ UNCHANGED <<text, pipelineVars, connVars>>

CallTotal ==
    /\ pc = "call_total"
    /\ result' = _extract_total_amount(text)
    /\ pc' = "done"
    /\ UNCHANGED <<text, pipelineVars, connVars>>

CallDates ==
    /\ pc = "call_dates"
    /\ result' = _extract_dates(text)
    /\ pc' = "done"
    /\ UNCHANGED <<text, pipelineVars, connVars>>

CallAddress ==
    /\ pc = "call_address"
    /\ result' = _extract_address(text)
    /\ pc' = "done"
    /\ UNCHANGED <<text, pipelineVars, connVars>>

MaxSubjectParts == 3

SubjectPool == {S_folio, S_boleta, S_rut, S_factura_short, S_numero}

InitSubject ==
    /\ pc = "call_subject"
    /\ text \in Texts(SubjectPool, MaxSubjectParts)
    /\ result = EmptyMap
    /\ PipelineIdle

SpecSubject == InitSubject /\ [][CallSubject]_vars

MaxTotalParts == 4

\* filler that leaves room for two more characters in the window after a label
WindowPad == Pad(TotalWindow - 2)

TotalPool == {T_label, T_label_long, T_dollar, T_clp, WindowPad}

InitTotal ==
    /\ pc = "call_total"
    /\ text \in Texts(TotalPool, MaxTotalParts)
    /\ result = None
    /\ PipelineIdle

SpecTotal == InitTotal /\ [][CallTotal]_vars

MaxDateParts == 3

DatePool == {D_numeric1, D_numeric2, D_spanish1, D_spanish2, D_english, D_word}

InitDates ==
    /\ pc = "call_dates"
    /\ text \in Texts(DatePool, MaxDateParts)
    /\ result = EmptyMap
    /\ PipelineIdle

SpecDates == InitDates /\ [][CallDates]_vars

MaxAddressParts == 3

AddressPool == {A_label, A_label2, A_value, A_short, A_newline, A_other, A_spaces}

InitAddress ==
    /\ pc = "call_address"
    /\ text \in Texts(AddressPool, MaxAddressParts)
    /\ result = None
    /\ PipelineIdle

SpecAddress == InitAddress /\ [][CallAddress]_vars

(***************************************************************************)
(* Properties of the field extractors.                                     *)
(***************************************************************************)
\* the positions at which pattern p matches in t
StartsOf(p, t) == {s \in 1..Len(t) : MatchAt(p, t, s) # NoMatch}

\* the folio patterns that match somewhere in the text
FolioHits == {k \in 1..Len(folio_patterns) : StartsOf(folio_patterns[k], LowerText(text)) # {}}

\* the leftmost match of the k-th folio pattern
FolioMatch(k) ==
    MatchAt(folio_patterns[k], LowerText(text),
            MinOf(StartsOf(folio_patterns[k], LowerText(text))))

\* C9: the subject yields at most the keys folio and rut_from_subject; folio
\* is present exactly when some folio pattern matches, and is then the digit
\* run (at least 6 digits) of the leftmost match of the first pattern, in the
\* order folio, numero, boleta, factura, that matches anywhere; an earlier
\* occurrence of a later label does not win.
C9_FolioByLabelPriority ==
    pc = "done" =>
        /\ DOMAIN result \subseteq {"folio", "rut_from_subject"}
        /\ ("folio" \in DOMAIN result) <=> (FolioHits # {})
        /\ FolioHits # {} =>
              /\ result["folio"] = Group(text, FolioMatch(MinOf(FolioHits)))
              /\ Len(result["folio"]) >= FolioMinDigits
              /\ \A i \in 1..Len(result["folio"]) : result["folio"][i] \in Digit

\* a subject where a later label's number stands before the first label's
C9_Witness ==
    /\ pc = "done"
    /\ "folio" \in DOMAIN result
    /\ \E k \in FolioHits :
          /\ k > MinOf(FolioHits)
          /\ FolioMatch(k).s < FolioMatch(MinOf(FolioHits)).s
          /\ Group(text, FolioMatch(k)) # result["folio"]

\* the occurrences of a total label, in text order
TotalLabels == FindIter(_TOTAL_LABELS, LowerText(text))

\* the 60 characters after the n-th total label
TotalWindowOf(n) == Prefix(From(text, TotalLabels[n].e), TotalWindow)

\* the first amount in the window of the n-th label
AmountIn(n) == Search(_AMOUNT_RE, LowerText(TotalWindowOf(n)))

\* the labels whose window holds an amount
LabelsWithAmount == {n \in 1..Len(TotalLabels) : AmountIn(n) # NoMatch}

\* the first amount of the whole text
AmountAnywhere == Search(_AMOUNT_RE, LowerText(text))

\* C3: the total is the first amount found in the 60 characters after the
\* earliest total label that has one; only when no label has one is it the
\* first amount anywhere in the text; None when there is no amount.
C3_TotalAmount ==
    pc = "done" =>
        IF LabelsWithAmount # {}
        THEN result = Group(TotalWindowOf(MinOf(LabelsWithAmount)),
                            AmountIn(MinOf(LabelsWithAmount)))
        ELSE IF AmountAnywhere # NoMatch
             THEN result = Group(text, AmountAnywhere)
             ELSE result = None

\* an unlabelled amount stands before the first label, and the labelled
\* amount is returned
C3_Witness ==
    /\ pc = "done"
    /\ LabelsWithAmount # {}
    /\ AmountAnywhere.s < TotalLabels[1].s
    /\ result # Group(text, AmountAnywhere)

\* the matches of the k-th date pattern, in text order
DatesOf(k) == FindIter(DATE_PATTERNS[k], LowerText(text))

\* the date patterns with at least i matches
PatternsWith(i) == {k \in 1..Len(DATE_PATTERNS) : Len(DatesOf(k)) >= i}

\* C4 as amended: the i-th date key (start, end) is present exactly when some
\* pattern has at least i matches, and holds the i-th match of the first such
\* pattern in the order numeric, Spanish, English; a key once set is kept.
C4_DatesBySlot ==
    pc = "done" =>
        /\ DOMAIN result \subseteq {_DATE_KEYS[1], _DATE_KEYS[2]}
        /\ \A i \in 1..Len(_DATE_KEYS) :
              /\ (_DATE_KEYS[i] \in DOMAIN result) <=> (PatternsWith(i) # {})
              /\ PatternsWith(i) # {} =>
                    result[_DATE_KEYS[i]] = Group(text, DatesOf(MinOf(PatternsWith(i)))[i])

\* start from the single numeric date, end from the second Spanish date
C4_Witness ==
    /\ pc = "done"
    /\ Len(DatesOf(1)) = 1
    /\ Len(DatesOf(2)) >= 2
    /\ result[_DATE_KEYS[1]] = Group(text, DatesOf(1)[1])
    /\ result[_DATE_KEYS[2]] = Group(text, DatesOf(2)[2])

\* all date matches, the patterns in order and each pattern's in text order
AllDates == DatesOf(1) \o DatesOf(2) \o DatesOf(3)

\* C4 as stated: start and end are the first two matches of that union
C4_DatesFromUnion ==
    pc = "done" =>
        \A i \in 1..Len(_DATE_KEYS) :
            /\ (_DATE_KEYS[i] \in DOMAIN result) <=> (Len(AllDates) >= i)
            /\ Len(AllDates) >= i => result[_DATE_KEYS[i]] = Group(text, AllDates[i])

\* the occurrences of an address label, in text order
AddressLabels == FindIter(_ADDRESS_LABELS, LowerText(text))

\* the end of the line that position i stands on
LineEnd(i) ==
    IF \E j \in i..Len(text) : text[j] \in LineBreak
    THEN MinOf({j \in i..Len(text) : text[j] \in LineBreak})
    ELSE Len(text) + 1

\* what follows the n-th address label up to the end of the label's own line
LineRemainder(n) ==
    LET m == AddressLabels[n]
    IN IF m.e <= LineEnd(m.s) THEN SubSeq(text, m.e, LineEnd(m.s) - 1) ELSE <<>>

\* the value the n-th label yields from its own line
LineValue(n) == Strip(CollapseSpace(Prefix(LineRemainder(n), AddressMax)))

\* the labels that yield a value from their own line
LabelsWithLine ==
    {n \in 1..Len(AddressLabels) :
        Len(LineRemainder(n)) >= AddressMin /\ LineValue(n) # <<>>}

\* C5: the address is taken from the remainder of the line the label stands
\* on, at most 120 characters, whitespace collapsed and trimmed; a label whose
\* remainder is shorter than 5 characters yields no value.
C5_AddressOnLabelLine ==
    pc = "done" =>
        IF LabelsWithLine # {}
        THEN result = LineValue(MinOf(LabelsWithLine))
        ELSE result = None

(***************************************************************************)
(* Properties of extract_attributes_from_email_body.                       *)
(***************************************************************************)
\* the pipeline's steps, in the order it runs them
Steps == <<"subject", "dates", "total", "customer", "address">>

\* the map after the first n steps have completed on the call's arguments
RECURSIVE MergedAfter(_)
MergedAfter(n) ==
    IF n = 0 THEN EmptyMap
    ELSE LET before == MergedAfter(n - 1)
             capped == Combine(subject, body)
         IN CASE Steps[n] = "subject" -> Update(before, _extract_from_subject(subject))
              [] Steps[n] = "dates" -> Update(before, _extract_dates(capped))
              [] Steps[n] = "total" ->
                    SetIfTruthy(before, "total_amount", _extract_total_amount(capped))
              [] Steps[n] = "customer" ->
                    SetIfTruthy(before, "customer_number", _extract_customer_number(capped))
              [] Steps[n] = "address" ->
                    SetIfTruthy(before, "address", _extract_address(capped))

\* the number of steps that complete when the given step fails
CompletedBefore(f) ==
    IF f = "none" THEN Len(Steps) ELSE (CHOOSE n \in 1..Len(Steps) : Steps[n] = f) - 1

AttributeKeys ==
    {"folio", "rut_from_subject", "billing_period_start", "billing_period_end",
     "total_amount", "customer_number", "address"}

\* C1: the call never raises and returns a map; when a step fails, the map
\* holds exactly what the steps completed before the failure merged, and is
\* empty when the first step failed.
C1_NeverRaises ==
    /\ ~raised
    /\ pc = "done" =>
          /\ DOMAIN result \subseteq AttributeKeys
          /\ result = MergedAfter(CompletedBefore(fault))
          /\ fault = "subject" => result = EmptyMap

\* a failure of the customer step after the total was merged, in a text
\* that holds a customer number
C1_Witness ==
    /\ pc = "done"
    /\ fault = "customer"
    /\ "total_amount" \in DOMAIN result
    /\ "folio" \in DOMAIN result
    /\ _extract_customer_number(combined) # None
    /\ "customer_number" \notin DOMAIN result

\* C6: the returned map has keys of the closed set only, and every key
\* present maps to a non-empty string; a field not found is absent.
C6_ClosedKeysNonEmpty ==
    pc = "done" =>
        /\ DOMAIN result \subseteq AttributeKeys
        /\ \A k \in DOMAIN result :
              /\ result[k] # None
              /\ result[k] # <<>>
              /\ result[k] \in Seq(STRING)

\* a complete run on a text without an amount: other fields present, no total
C6_Witness ==
    /\ pc = "done"
    /\ fault = "none"
    /\ _extract_total_amount(combined) = None
    /\ "total_amount" \notin DOMAIN result
    /\ "address" \in DOMAIN result

(***************************************************************************)
(* Calls whose subject and body together exceed the 15,000 character cap.  *)
(***************************************************************************)
\* filler as long as the cap
LongPad == Pad(MaxCombined)

\* the calls: arguments longer than the cap without a failing step, and
\* short arguments with every failing step
CapCalls ==
    {[subject |-> LongPad \o S_folio, body |-> <<>>, fault |-> "none"],
     [subject |-> S_folio, body |-> LongPad \o B_total, fault |-> "none"]}
    \cup {[subject |-> sb, body |-> bd, fault |-> f] :
             sb \in Subjects, bd \in {<<>>, B_total}, f \in Faults}

InitCap ==
    /\ pc = "start"
    /\ \E call \in CapCalls :
          /\ subject = call.subject
          /\ body = call.body
          /\ fault = call.fault
    /\ combined = <<>>
    /\ attributes = EmptyMap
    /\ raised = FALSE
    /\ text = <<>>
    /\ result = EmptyMap
    /\ msg = NoMsg
    /\ ConnIdle

SpecCap == InitCap /\ [][Next]_vars

\* C2: when subject + "\n\n" + body is longer than 15,000 characters, every
\* returned value comes from a match lying within the first 15,000 characters
\* of the concatenation: the body fields are searched in the capped text, and
\* the matches that give folio and rut_from_subject end before offset 15,000.
C2_MatchesWithinCap ==
    (pc = "done" /\ Len(Concatenation(subject, body)) > MaxCombined) =>
        /\ combined = Prefix(Concatenation(subject, body), MaxCombined)
        /\ "folio" \in DOMAIN result => FolioFrom(subject, 1).e - 1 <= MaxCombined
        /\ "rut_from_subject" \in DOMAIN result =>
              Search(rut_pattern, subject).e - 1 <= MaxCombined

(***************************************************************************)
(* extract_attributes_from_email: a message is its Subject header as the   *)
(* fragments decode_header returns, and the parts msg.walk() visits.  A    *)
(* payload is a sequence of characters and undecodable bytes.              *)
(***************************************************************************)
\* a byte that is not valid UTF-8
BadByte == "0xFF"

\* the charsets Python has a codec for, among the ones messages declare
KnownCharsets == {"utf-8"}

\* bytes.decode(charset, errors="ignore"): undecodable bytes are dropped
Decode(data) == SelectSeq(data, LAMBDA c : c # BadByte)

\* bytes.decode raises LookupError for an unknown charset, unless the data is empty
DecodeRaises(data, charset) == data # <<>> /\ charset \notin KnownCharsets

\* encoding or "utf-8"
OrUtf8(charset) == IF charset = "none" THEN "utf-8" ELSE charset

RECURSIVE Join(_, _)
\* sep.join(parts)
Join(parts, sep) ==
    IF parts = <<>> THEN <<>>
    ELSE IF Len(parts) = 1 THEN parts[1]
    ELSE parts[1] \o sep \o Join(Tail(parts), sep)

\* the position of the ">" that ends the tag opened at position i, 0 if none
TagEnd(html, i) ==
    IF \E j \in i..Len(html) : html[j] = ">"
    THEN MinOf({j \in i..Len(html) : html[j] = ">"})
    ELSE 0

RECURSIVE HtmlData(_, _, _)
\* the data the parser hands to handle_data from position i on, run being
\* the data read since the last tag; an unfinished tag ends the parse
HtmlData(html, i, run) ==
    LET flushed == IF run = <<>> THEN <<>> ELSE <<run>>
    IN IF i > Len(html) THEN flushed
       ELSE IF html[i] = "<"
            THEN IF TagEnd(html, i) = 0 THEN flushed
                 ELSE flushed \o HtmlData(html, TagEnd(html, i) + 1, <<>>)
            ELSE HtmlData(html, i + 1, run \o <<html[i]>>)

\* "\n".join(self._parts) after parser.feed(html)
_strip_html(html) == Join(HtmlData(html, 1, <<>>), <<"\n">>)

\* a variant of the walk that does not skip attachments
RECURSIVE WalkAll(_, _, _, _)
WalkAll(parts, k, plain_parts, html_parts) ==
    IF k > Len(parts) THEN [plain |-> plain_parts, html |-> html_parts]
    ELSE LET part == parts[k]
             charset == OrUtf8(part.charset)
             usable == part.payload # <<>> /\ ~DecodeRaises(part.payload, charset)
         IN WalkAll(parts, k + 1,
                    IF usable /\ part.ctype = "text/plain"
                    THEN Append(plain_parts, Decode(part.payload)) ELSE plain_parts,
                    IF usable /\ part.ctype = "text/html"
                    THEN Append(html_parts, Decode(part.payload)) ELSE html_parts)

RECURSIVE Walk(_, _, _, _)
\* for part in msg.walk(): from the k-th part on
Walk(parts, k, plain_parts, html_parts) ==
    IF k > Len(parts) THEN [plain |-> plain_parts, html |-> html_parts]
    ELSE LET part == parts[k]
             charset == OrUtf8(part.charset)
         IN IF part.attachment THEN Walk(parts, k + 1, plain_parts, html_parts)
            ELSE IF part.payload = <<>> \/ DecodeRaises(part.payload, charset)
                 THEN Walk(parts, k + 1, plain_parts, html_parts)
                 ELSE IF part.ctype = "text/plain"
                      THEN Walk(parts, k + 1,
                                Append(plain_parts, Decode(part.payload)), html_parts)
                      ELSE IF part.ctype = "text/html"
                           THEN Walk(parts, k + 1, plain_parts,
                                     Append(html_parts, Decode(part.payload)))
                           ELSE Walk(parts, k + 1, plain_parts, html_parts)

\* the multipart branch
MultipartBody(parts) ==
    LET found == Walk(parts, 1, <<>>, <<>>)
    IN IF found.plain # <<>> THEN Join(found.plain, <<" ">>)
       ELSE IF found.html # <<>> THEN _strip_html(Join(found.html, <<" ">>))
       ELSE <<>>

\* the single-part branch
SinglePartBody(part) ==
    IF part.payload = <<>> \/ DecodeRaises(part.payload, OrUtf8(part.charset)) THEN <<>>
    ELSE IF part.ctype = "text/html" THEN _strip_html(Decode(part.payload))
    ELSE Decode(part.payload)

\* whether decoding some fragment of the Subject header raises
SubjectRaises(fragments) ==
    \E k \in 1..Len(fragments) :
        fragments[k].bytes /\ DecodeRaises(fragments[k].data, OrUtf8(fragments[k].encoding))

RECURSIVE DecodedSubject(_)
\* "".join(subject_parts)
DecodedSubject(fragments) ==
    IF fragments = <<>> THEN <<>>
    ELSE (IF Head(fragments).bytes THEN Decode(Head(fragments).data)
          ELSE Head(fragments).data) \o DecodedSubject(Tail(fragments))

\* the Subject header is decoded outside any try block
DecodeSubject ==
    /\ pc = "email"
    /\ IF SubjectRaises(msg.subject)
       THEN raised' = TRUE /\ pc' = "done" /\ UNCHANGED subject
       ELSE /\ subject' = DecodedSubject(msg.subject)
            /\ pc' = "body"
            /\ UNCHANGED raised
    /\ UNCHANGED <<text, result, body, combined, attributes, fault, msg, connVars>>

ExtractBody ==
    /\ pc = "body"
    /\ body' = IF msg.multipart THEN MultipartBody(msg.parts)
               ELSE SinglePartBody(msg.parts[1])
    /\ pc' = "start"
    /\ UNCHANGED <<text, result, subject, combined, attributes, fault, raised, msg, connVars>>

\* "<p>Total a pagar: $45.990</p>"
H_total ==
    <<"<", "p", ">", "T", "o", "t", "a", "l", " ", "a", " ", "p", "a", "g", "a", "r",
      ":", " ", "$", "4", "5", ".", "9", "9", "0", "<", "/", "p", ">">>

\* "<b>Numero de cuenta:</b> 123-456789"
H_customer ==
    <<"<", "b", ">", "N", "u", "m", "e", "r", "o", " ", "d", "e", " ", "c", "u", "e",
      "n", "t", "a", ":", "<", "/", "b", ">", " ", "1", "2", "3", "-", "4", "5", "6",
      "7", "8", "9">>

F_text == [bytes |-> FALSE, data |-> S_folio, encoding |-> "none"]

F_utf8 == [bytes |-> TRUE, data |-> <<BadByte>> \o S_boleta, encoding |-> "utf-8"]

F_plain_bytes == [bytes |-> TRUE, data |-> S_rut, encoding |-> "none"]

F_unknown == [bytes |-> TRUE, data |-> S_folio, encoding |-> "x-unknown"]

EmailSubjects == {<<>>, <<F_text>>, <<F_utf8, F_plain_bytes>>, <<F_plain_bytes, F_unknown>>}

\* the container walk() visits first: it has no payload of its own
P_root == [ctype |-> "multipart/mixed", attachment |-> FALSE, payload |-> <<>>,
           charset |-> "none"]

P_plain == [ctype |-> "text/plain", attachment |-> FALSE, payload |-> B_total,
            charset |-> "utf-8"]

P_plain_markup == [ctype |-> "text/plain", attachment |-> FALSE, payload |-> H_customer,
                   charset |-> "none"]

P_plain_bad == [ctype |-> "text/plain", attachment |-> FALSE,
                payload |-> <<BadByte, BadByte>>, charset |-> "utf-8"]

P_plain_unknown == [ctype |-> "text/plain", attachment |-> FALSE, payload |-> B_period,
                    charset |-> "x-unknown"]

P_html == [ctype |-> "text/html", attachment |-> FALSE, payload |-> H_total,
           charset |-> "utf-8"]

P_attachment == [ctype |-> "text/plain", attachment |-> TRUE, payload |-> B_address,
                 charset |-> "utf-8"]

P_pdf == [ctype |-> "application/pdf", attachment |-> FALSE, payload |-> B_customer,
          charset |-> "none"]

PartPool ==
    {P_plain, P_plain_markup, P_plain_bad, P_plain_unknown, P_html, P_attachment, P_pdf}

MaxParts == 2

Messages ==
    {[subject |-> sb, multipart |-> TRUE, parts |-> <<P_root>> \o ps] :
        sb \in EmailSubjects, ps \in Texts({<<p>> : p \in PartPool}, MaxParts)}
    \cup {[subject |-> sb, multipart |-> FALSE, parts |-> <<p>>] :
             sb \in EmailSubjects, p \in PartPool}

EmailFaults == {"none", "total"}

InitEmail ==
    /\ pc = "email"
    /\ msg \in Messages
    /\ fault \in EmailFaults
    /\ subject = <<>>
    /\ body = <<>>
    /\ combined = <<>>
    /\ attributes = EmptyMap
    /\ raised = FALSE
    /\ text = <<>>
    /\ result = EmptyMap
    /\ ConnIdle

NextEmail ==
    \/ DecodeSubject
    \/ ExtractBody
    \/ Pipeline

SpecEmail == InitEmail /\ [][NextEmail]_vars

\* C7: extract_attributes_from_email never raises, whatever the message: a
\* Subject fragment that cannot be decoded is decoded lossily, a body part
\* that cannot be decoded contributes no text, and a map is always returned.
C7_EmailNeverRaises ==
    /\ ~raised
    /\ pc = "done" => DOMAIN result \subseteq AttributeKeys

\* whether the part's payload is there and decodes without an error
Decodes(part) ==
    part.payload # <<>> /\ ~DecodeRaises(part.payload, OrUtf8(part.charset))

\* the decoded texts of the parts, in walk order
TextsOf(parts) == [k \in 1..Len(parts) |-> Decode(parts[k].payload)]

\* the message's parts of a content type that are not attachments and decode
PartsOfType(ctype) ==
    SelectSeq(msg.parts, LAMBDA part : ~part.attachment /\ Decodes(part) /\ part.ctype = ctype)

\* the plain-text parts that decode to non-empty text
NonEmptyPlain == SelectSeq(PartsOfType("text/plain"), LAMBDA part : Decode(part.payload) # <<>>)

\* the body has been extracted
BodyExtracted == pc \notin {"email", "body"} /\ ~raised /\ msg.multipart

MaxRefreshes == 3

\* what can fail during a refresh: the executor job itself, reading the
\* configuration entry, or one of the three IMAP calls
ConnFaults == {"none", "executor", "config", "connect", "login", "logout"}

extractorVars == <<pc, text, result, subject, body, combined, attributes, fault, raised, msg>>

\* the framework calls _async_update_data
StartRefresh ==
    /\ cpc = "idle"
    /\ refreshes < MaxRefreshes
    /\ refreshes' = refreshes + 1
    /\ failing' \in ConnFaults
    /\ calls' = <<>>
    /\ ret' = ""
    /\ cpc' = "executor"
    /\ UNCHANGED <<outcome, extractorVars>>

\* await self.hass.async_add_executor_job(self._check_connection)
ExecutorJob ==
    /\ cpc = "executor"
    /\ cpc' = IF failing = "executor" THEN "failed" ELSE "config"
    /\ UNCHANGED <<failing, calls, ret, outcome, refreshes, extractorVars>>

\* data = self.config_entry.data, and the lookups in it
ReadConfig ==
    /\ cpc = "config"
    /\ cpc' = IF failing = "config" THEN "caught" ELSE "connect"
    /\ UNCHANGED <<failing, calls, ret, outcome, refreshes, extractorVars>>

\* imap = imaplib.IMAP4_SSL(server, port)
Connect ==
    /\ cpc = "connect"
    /\ calls' = Append(calls, "connect")
    /\ cpc' = IF failing = "connect" THEN "caught" ELSE "login"
    /\ UNCHANGED <<failing, ret, outcome, refreshes, extractorVars>>

\* imap.login(email, password)
Login ==
    /\ cpc = "login"
    /\ calls' = Append(calls, "login")
    /\ cpc' = IF failing = "login" THEN "caught" ELSE "logout"
    /\ UNCHANGED <<failing, ret, outcome, refreshes, extractorVars>>

\* imap.logout(); return "OK"
Logout ==
    /\ cpc = "logout"
    /\ calls' = Append(calls, "logout")
    /\ IF failing = "logout"
       THEN cpc' = "caught" /\ UNCHANGED ret
       ELSE cpc' = "returned" /\ ret' = "OK"
    /\ UNCHANGED <<failing, outcome, refreshes, extractorVars>>

\* a variant of the handler that raises instead of returning "Problem"
CaughtRaises ==
    /\ cpc = "caught"
    /\ cpc' = "failed"
    /\ UNCHANGED <<failing, calls, ret, outcome, refreshes, extractorVars>>

\* except Exception as err: _LOGGER.warning(...); return "Problem"
Caught ==
    /\ cpc = "caught"
    /\ ret' = "Problem"
    /\ cpc' = "returned"
    /\ UNCHANGED <<failing, calls, outcome, refreshes, extractorVars>>

\* _async_update_data returns what the check returned
Returned ==
    /\ cpc = "returned"
    /\ outcome' = ret
    /\ cpc' = "idle"
    /\ UNCHANGED <<failing, calls, ret, refreshes, extractorVars>>

\* except Exception as err: raise UpdateFailed(...) from err
Failed ==
    /\ cpc = "failed"
    /\ outcome' = "UpdateFailed"
    /\ cpc' = "idle"
    /\ UNCHANGED <<failing, calls, ret, refreshes, extractorVars>>

InitConn ==
    /\ pc = "coordinator"
    /\ text = <<>>
    /\ result = EmptyMap
    /\ PipelineIdle

NextConn ==
    \/ StartRefresh
    \/ ExecutorJob
    \/ ReadConfig
    \/ Connect
    \/ Login
    \/ Logout
    \/ Caught
    \/ Returned
    \/ Failed

SpecConn == InitConn /\ [][NextConn]_vars

\* the IMAP calls of a complete check
CheckCalls == <<"connect", "login", "logout">>

\* the steps whose failure the check itself catches
CheckFaults == {"config", "connect", "login", "logout"}

\* a refresh has ended
RefreshEnded == cpc = "idle" /\ refreshes > 0

\* C10 as amended: the check calls connect, login, logout in that order and
\* returns "OK" exactly when all three succeed, "Problem" when one of them
\* or reading the configuration fails; a failed check ends the refresh with
\* the value "Problem", not with UpdateFailed, which is raised only when
\* running the check in the executor itself raises.
C10_FailedCheckReturnsProblem ==
    /\ calls = SubSeq(CheckCalls, 1, Len(calls))
    /\ ret \in {"", "OK", "Problem"}
    /\ cpc = "returned" =>
          /\ ret \in {"OK", "Problem"}
          /\ ret = "OK" <=> failing = "none"
          /\ ret = "OK" => calls = CheckCalls
    /\ RefreshEnded =>
          /\ outcome \in {"OK", "Problem", "UpdateFailed"}
          /\ outcome = "OK" <=> failing = "none"
          /\ outcome = "Problem" <=> failing \in CheckFaults
          /\ outcome = "UpdateFailed" <=> failing = "executor"

\* a refresh whose login failed has ended with the value "Problem"
C10_Witness ==
    /\ RefreshEnded
    /\ failing = "login"
    /\ calls = <<"connect", "login">>
    /\ ret = "Problem"
    /\ outcome = "Problem"

\* C10 as stated: a failed check ends the refresh with UpdateFailed
C10_FailedCheckIsUpdateFailed ==
    /\ calls = SubSeq(CheckCalls, 1, Len(calls))
    /\ cpc = "returned" => (ret = "OK" <=> failing = "none")
    /\ (RefreshEnded /\ failing \in CheckFaults) => outcome = "UpdateFailed"

====
